---------------------------- MODULE Spec2Model ----------------------------
(***************************************************************************)
(* Feature schema reconciliation of the ONNX inference scripts.            *)
(*                                                                         *)
(* Three reconcilers are modelled from their source:                       *)
(*   lef : load_exact_features.py    preprocess_for_inference              *)
(*   cef : create_exact_preprocessing.py  preprocess_for_exact_inference   *)
(*   rfp : Run_Full_Pipeline.py      main / run_preprocessing /            *)
(*                                   preprocess_for_inference              *)
(* A column name is a sequence of one-character strings, so that strip,    *)
(* startswith, replace and difflib's similarity are computed on the        *)
(* characters, as the code computes them.                                  *)
(***************************************************************************)
EXTENDS Integers, Sequences, FiniteSets, TLC

(***************************************************************************)
(* Bounds of the model.                                                    *)
(***************************************************************************)
\* longest feature_columns list of a schema
MaxFeatures == 3
\* largest number of columns of a raw CSV
MaxRawCols == 2
\* number of data rows of a raw CSV
NumRows == 2
\* largest number of lines of a predictor output
MaxLines == 4

(***************************************************************************)
(* Column names.                                                           *)
(***************************************************************************)
nA == <<"A">>
nA_sp == <<" ", "A", " ">>
nAB == <<"A", "B">>
nAC == <<"A", "C">>
nB == <<"B">>
nB_x == <<"B", "_", "x">>
nC == <<"C">>
nGT_Label == <<"G", "T", "_", "L", "a", "b", "e", "l">>
nGT_Lab == <<"G", "T", "_", "L", "a", "b">>
nAnomalyScore == <<"A", "n", "o", "m", "a", "l", "y", "S", "c", "o", "r", "e">>
nAnomalyScor == <<"A", "n", "o", "m", "a", "l", "y", "S", "c", "o", "r">>
nXYZ123 == <<"X", "Y", "Z", "1", "2", "3">>
nGood == <<"G", "o", "o", "d">>
nGood_sp == <<" ", "G", "o", "o", "d">>
nWeld == <<"W", "e", "l", "d">>
nWeld_ == <<"W", "e", "l", "d", "_">>
nWeld_WL21 == <<"W", "e", "l", "d", "_", "W", "L", "2", "1">>
nWeld_WL22 == <<"W", "e", "l", "d", "_", "W", "L", "2", "2">>
nWeld_Weld_WL21 ==
    <<"W", "e", "l", "d", "_", "W", "e", "l", "d", "_", "W", "L", "2", "1">>
vWL21 == <<"W", "L", "2", "1">>
vWL22 == <<"W", "L", "2", "2">>
vWL23 == <<"W", "L", "2", "3">>
vx == <<"x">>
vy == <<"y">>

\* the characters of the names above, in code point order
Alphabet ==
    << " ", "1", "2", "3", "A", "B", "C", "G", "L", "S", "T", "W", "X", "Y",
       "Z", "_", "a", "b", "c", "d", "e", "l", "m", "n", "o", "r", "x", "y" >>

\* ord(c): the position of a character in code point order
Ord(c) == CHOOSE k \in 1..Len(Alphabet) : Alphabet[k] = c

\* Python's str ordering: s < t
RECURSIVE StrLess(_, _)
StrLess(s, t) ==
    IF t = <<>> THEN FALSE
    ELSE IF s = <<>> THEN TRUE
    ELSE IF Head(s) = Head(t) THEN StrLess(Tail(s), Tail(t))
    ELSE Ord(Head(s)) < Ord(Head(t))

\* str.strip(): leading and trailing whitespace removed
RECURSIVE LStrip(_)
LStrip(s) ==
    IF s # <<>> /\ Head(s) = " " THEN LStrip(Tail(s)) ELSE s

RECURSIVE RStrip(_)
RStrip(s) ==
    IF s # <<>> /\ s[Len(s)] = " " THEN RStrip(SubSeq(s, 1, Len(s) - 1)) ELSE s

Strip(s) == RStrip(LStrip(s))

\* str.startswith(prefix)
StartsWith(s, prefix) ==
    /\ Len(s) >= Len(prefix)
    /\ SubSeq(s, 1, Len(prefix)) = prefix

\* str.replace(old, ""): every non-overlapping occurrence of old removed,
\* scanning from the left
RECURSIVE RemoveAll(_, _)
RemoveAll(s, old) ==
    IF s = <<>> THEN <<>>
    ELSE IF StartsWith(s, old)
         THEN RemoveAll(SubSeq(s, Len(old) + 1, Len(s)), old)
         ELSE <<Head(s)>> \o RemoveAll(Tail(s), old)

(***************************************************************************)
(* difflib.SequenceMatcher and get_close_matches, as called at             *)
(* load_exact_features.py:71 (no junk: the names are shorter than 200).    *)
(***************************************************************************)
\* length of the common run of a[i+1..] and b[j+1..] inside the windows
RECURSIVE RunLen(_, _, _, _, _, _)
RunLen(a, b, i, j, ahi, bhi) ==
    IF i < ahi /\ j < bhi /\ a[i + 1] = b[j + 1]
    THEN 1 + RunLen(a, b, i + 1, j + 1, ahi, bhi)
    ELSE 0

\* find_longest_match: the longest block a[i:i+k] = b[j:j+k] with
\* alo <= i, i+k <= ahi, blo <= j, j+k <= bhi; of the longest blocks the one
\* starting earliest in a, and of those the one starting earliest in b
FindLongestMatch(a, b, alo, ahi, blo, bhi) ==
    LET cand == { <<i, j, RunLen(a, b, i, j, ahi, bhi)>> :
                    <<i, j>> \in (alo..(ahi - 1)) \X (blo..(bhi - 1)) }
        hits == { c \in cand : c[3] > 0 }
    IN  IF hits = {} THEN <<alo, blo, 0>>
        ELSE CHOOSE c \in hits :
               \A d \in hits :
                  \/ c[3] > d[3]
                  \/ c[3] = d[3] /\ c[1] < d[1]
                  \/ c[3] = d[3] /\ c[1] = d[1] /\ c[2] <= d[2]

\* get_matching_blocks: the total size of the matching blocks
RECURSIVE MatchCount(_, _, _, _, _, _)
MatchCount(a, b, alo, ahi, blo, bhi) ==
    LET m == FindLongestMatch(a, b, alo, ahi, blo, bhi)
        i == m[1]
        j == m[2]
        k == m[3]
    IN  IF k = 0 THEN 0
        ELSE k
             + (IF alo < i /\ blo < j
                THEN MatchCount(a, b, alo, i, blo, j) ELSE 0)
             + (IF i + k < ahi /\ j + k < bhi
                THEN MatchCount(a, b, i + k, ahi, j + k, bhi) ELSE 0)

\* SequenceMatcher(None, a, b).ratio() as the fraction <<num, den>>:
\* 2.0 * matches / (len(a) + len(b)), and 1.0 when both are empty
Ratio(a, b) ==
    IF Len(a) + Len(b) = 0 THEN <<1, 1>>
    ELSE <<2 * MatchCount(a, b, 0, Len(a), 0, Len(b)), Len(a) + Len(b)>>

\* the cutoff 0.6 of get_close_matches as CutoffNum / CutoffDen
CutoffNum == 6
CutoffDen == 10

\* mutant of AtLeastCutoff: the cutoff is 0.5
AtLeastHalf(r) == r[1] * 2 >= r[2]

\* ratio >= cutoff
AtLeastCutoff(r) == r[1] * CutoffDen >= CutoffNum * r[2]

\* (score1, x1) < (score2, x2) as Python compares the tuples
ScoredLess(r1, x1, r2, x2) ==
    \/ r1[1] * r2[2] < r2[1] * r1[2]
    \/ r1[1] * r2[2] = r2[1] * r1[2] /\ StrLess(x1, x2)

\* difflib.get_close_matches(word, possibilities, n=1, cutoff=0.6):
\* the possibilities x with SequenceMatcher(seq1 = x, seq2 = word).ratio()
\* at least the cutoff; heapq.nlargest(1, ...) keeps the largest
\* (score, x).  The result is <<x>> or <<>>.
GetCloseMatches(word, possibilities) ==
    LET good == { p \in 1..Len(possibilities) :
                    AtLeastCutoff(Ratio(possibilities[p], word)) }
    IN  IF good = {} THEN <<>>
        ELSE LET best == CHOOSE p \in good :
                            \A q \in good :
                               ~ScoredLess(Ratio(possibilities[p], word),
                                           possibilities[p],
                                           Ratio(possibilities[q], word),
                                           possibilities[q])
             IN  <<possibilities[best]>>

(***************************************************************************)
(* Tables (pandas DataFrame, CSV file): a sequence of columns, each a      *)
(* record [name, vals]; vals has one cell per row.  A cell is a record     *)
(* [kind, col, row, v, s]:                                                 *)
(*   kind "num"  : the number read from column col, row row of the raw CSV *)
(*   kind "str"  : the category label s read from the raw CSV              *)
(*   kind "float": the float v (the zero fill 0.0)                         *)
(*   kind "int"  : the integer v (a one-hot 1 or 0)                        *)
(***************************************************************************)
RawNum(k, r) == [kind |-> "num", col |-> k, row |-> r, v |-> 0, s |-> <<>>]
Str(s) == [kind |-> "str", col |-> 0, row |-> 0, v |-> 0, s |-> s]
Float(v) == [kind |-> "float", col |-> 0, row |-> 0, v |-> v, s |-> <<>>]
IntCell(v) == [kind |-> "int", col |-> 0, row |-> 0, v |-> v, s |-> <<>>]

\* list(df.columns)
Columns(t) == [k \in 1..Len(t) |-> t[k].name]

\* x in list
InList(x, list) == \E k \in 1..Len(list) : list[k] = x

\* list.remove(x): the first occurrence of x removed
RECURSIVE ListRemove(_, _)
ListRemove(list, x) ==
    IF list = <<>> THEN <<>>
    ELSE IF Head(list) = x THEN Tail(list)
    ELSE <<Head(list)>> \o ListRemove(Tail(list), x)

\* df.columns = df.columns.str.strip()
StripColumns(t) == [k \in 1..Len(t) |-> [t[k] EXCEPT !.name = Strip(@)]]

\* df.rename(columns=m): every column whose label is a key of m gets m's
\* value as its label; the other columns keep theirs
RenameColumns(t, m) ==
    [k \in 1..Len(t) |->
        IF t[k].name \in DOMAIN m THEN [t[k] EXCEPT !.name = m[@]] ELSE t[k]]

\* len(df): the number of rows of a table that has a column
NRows(t) == Len(t[1].vals)

\* df[col] = value: every column labelled col is overwritten with the
\* constant; when there is none a new last column is added
SetConstColumn(t, col, value) ==
    LET c == [name |-> col, vals |-> [r \in 1..NRows(t) |-> value]]
    IN  IF InList(col, Columns(t))
        THEN [k \in 1..Len(t) |-> IF t[k].name = col THEN c ELSE t[k]]
        ELSE Append(t, c)

\* the columns of t labelled col, in t's order
RECURSIVE ColumnsLabelled(_, _)
ColumnsLabelled(t, col) ==
    IF t = <<>> THEN <<>>
    ELSE (IF Head(t).name = col THEN <<Head(t)>> ELSE <<>>)
         \o ColumnsLabelled(Tail(t), col)

\* df[cols] raises KeyError unless every label of cols is a column of df
SelectRaises(t, cols) == \E k \in 1..Len(cols) : ~InList(cols[k], Columns(t))

\* df[cols]: for each label of cols in turn, the columns of df with that
\* label (all of them when the label is not unique in df)
RECURSIVE SelectColumns(_, _)
SelectColumns(t, cols) ==
    IF cols = <<>> THEN <<>>
    ELSE ColumnsLabelled(t, Head(cols)) \o SelectColumns(t, Tail(cols))

(***************************************************************************)
(* Inputs: the schema artifact (pickle) and the raw CSV.                   *)
(***************************************************************************)
\* the sequences of at most n distinct elements of S
RECURSIVE DistinctSeqs(_, _)
DistinctSeqs(S, n) ==
    IF n = 0 THEN {<<>>}
    ELSE LET shorter == DistinctSeqs(S, n - 1)
         IN  shorter \cup
             { Append(q, x) : <<q, x>> \in
                 { p \in shorter \X S : ~InList(p[2], p[1]) } }

\* feature names a schema may list, per program
FeaturePool(p) ==
    CASE p = "lef" -> {nA, nAC, nB_x, nC, nGT_Label}
      [] p = "cef" -> {nC, nGood, nWeld_WL21, nWeld_WL22}
      [] p = "rfp" -> {nA, nC, nGT_Label}

\* header names a raw CSV may have, per program
RawPool(p) ==
    CASE p = "lef" -> {nA_sp, nA, nAC, nB, nGT_Label}
      [] p = "cef" -> {nGood_sp, nGood, nWeld, nGT_Label}
      [] p = "rfp" -> {nA_sp, nA, nGT_Label}

\* the category labels of the raw column Weld
WeldLabels == {vWL21, vWL22}

\* the value vectors a raw column called name at position k may hold:
\* Weld holds any labels, B holds x, y, x, ... and the other columns hold
\* numbers, each its own
ColumnValues(name, k) ==
    IF name = nWeld
    THEN { [r \in 1..NumRows |-> Str(f[r])] : f \in [1..NumRows -> WeldLabels] }
    ELSE IF name = nB
    THEN { [r \in 1..NumRows |-> Str(IF r % 2 = 1 THEN vx ELSE vy)] }
    ELSE { [r \in 1..NumRows |-> RawNum(k, r)] }

\* the raw tables with the given header
RECURSIVE TablesWithHeader(_, _)
TablesWithHeader(header, k) ==
    IF k > Len(header) THEN {<<>>}
    ELSE { <<[name |-> header[k], vals |-> v]>> \o rest :
             <<v, rest>> \in ColumnValues(header[k], k)
                             \X TablesWithHeader(header, k + 1) }

\* the feature list and the raw CSV of the end-to-end scenario:
\* columns " A " and B, B holding x and y
ScenarioFeatures == <<nA, nB_x, nC>>
ScenarioCsv ==
    << [name |-> nA_sp, vals |-> <<RawNum(1, 1), RawNum(1, 2)>>],
       [name |-> nB, vals |-> <<Str(vx), Str(vy)>>] >>

\* further feature lists: a name that resembles GT_Label, AnomalyScore, and
\* a Weld_ feature whose weld name itself starts with Weld_
ExtraFeatures(p) ==
    CASE p = "lef" -> {<<nGT_Lab>>, <<nAnomalyScore>>}
      [] p = "cef" -> {<<nWeld_Weld_WL21>>}
      [] p = "rfp" -> {}

\* a raw CSV whose column Weld holds the labels Weld_WL21 and WL21
WeldPrefixCsv ==
    << [name |-> nWeld, vals |-> <<Str(nWeld_WL21), Str(vWL21)>>] >>

\* further raw headers: two columns as close to A as each other, in both
\* orders, a column one character short of AnomalyScore, and XYZ123
ExtraHeaders(p) ==
    IF p = "lef"
    THEN {<<nAB, nAC>>, <<nAC, nAB>>, <<nAnomalyScor>>, <<nXYZ123>>}
    ELSE {}

\* pd.read_csv gives every column its own label, so headers are distinct,
\* and it needs at least one column
RawTables(p) ==
    UNION { TablesWithHeader(h, 1) :
              h \in (DistinctSeqs(RawPool(p), MaxRawCols) \ {<<>>})
                    \cup ExtraHeaders(p) }
    \cup (IF p = "rfp" THEN {} ELSE {ScenarioCsv})
    \cup (IF p = "cef" THEN {WeldPrefixCsv} ELSE {})

\* the pickled feature_mapping dict: feature_count and feature_columns may
\* be absent; feature_count may disagree with len(feature_columns)
Artifacts(p) ==
    LET lists == DistinctSeqs(FeaturePool(p), MaxFeatures)
                 \cup (IF p = "rfp" THEN {} ELSE {ScenarioFeatures})
                 \cup ExtraFeatures(p)
        counts(l) == IF p = "cef" THEN {Len(l)}
                     ELSE {c \in {Len(l) - 1, Len(l), Len(l) + 1} : c >= 0}
    IN  { [has_count |-> TRUE, feature_count |-> c,
           has_columns |-> TRUE, feature_columns |-> l] :
             <<l, c>> \in { q \in lists \X (0..(MaxFeatures + 2)) :
                              q[2] \in counts(q[1]) } }
        \cup
        { [has_count |-> hc, feature_count |-> IF hc THEN 1 ELSE 0,
           has_columns |-> hl, feature_columns |-> IF hl THEN <<nA>> ELSE <<>>] :
             <<hc, hl>> \in {<<FALSE, TRUE>>, <<TRUE, FALSE>>, <<FALSE, FALSE>>} }

(***************************************************************************)
(* The reference sample (feature_mapping['sample_features']) and the       *)
(* numbers the verification compares.  A number is counted in units of     *)
(* 1e-7, so that 0.123456, 0.1234561 and the tolerance 1e-6 are integers.  *)
(***************************************************************************)
Unit == 10000000
Tolerance == 10
Ref0123456 == 1234560
Our01234561 == 1234561
Ref05 == 5000000
Our06 == 6000000

\* a value of the reference sample: no entry, a bool, or a number
RefAbsent == [kind |-> "absent", b |-> FALSE, v |-> 0]
RefBool(b) == [kind |-> "bool", b |-> b, v |-> 0]
RefNum(v) == [kind |-> "num", b |-> FALSE, v |-> v]

\* the artifact has no sample_features
NoSample ==
    [has |-> FALSE, vals |-> (nGood :> RefAbsent) @@ (nWeld_WL21 :> RefAbsent)]

\* the reference samples: entries for Good and for Weld_WL21, or neither
Samples(p) ==
    IF p = "cef"
    THEN {NoSample} \cup
         { [has |-> TRUE, vals |-> (nGood :> g) @@ (nWeld_WL21 :> w)] :
             <<g, w>> \in {RefAbsent, RefNum(Ref0123456), RefNum(Ref05),
                           RefBool(TRUE)}
                          \X {RefAbsent, RefBool(TRUE)} }
    ELSE {NoSample}

\* the number a cell holds: the raw data hold 0.1234561 in their first
\* column and 0.6 in the others; a one-hot is 1 or 0, a fill is 0.0
OurValue(cell) ==
    CASE cell.kind = "num" -> IF cell.col = 1 THEN Our01234561 ELSE Our06
      [] cell.kind = "int" -> cell.v * Unit
      [] cell.kind = "float" -> cell.v * Unit
      [] cell.kind = "str" -> 0

(***************************************************************************)
(* The scalars of preprocessing_steps and sample_features, as              *)
(* convert_pickle_to_json sees them: a type and a number.                  *)
(***************************************************************************)
\* the number off, or 2^53 + off when big
Num(big, off) == [big |-> big, off |-> off]

\* 1, 2^53 and 2^53 + 1
PickleNumbers == {Num(FALSE, 1), Num(TRUE, 0), Num(TRUE, 1)}

\* n is the value of a double: from 2^53 on, only the even integers are
IsDouble(n) == ~n.big \/ n.off % 2 = 0

\* float(value) of a 64-bit integer: the nearest double, a tie going to the
\* one whose significand is even
RoundToDouble(n) ==
    IF IsDouble(n) THEN n
    ELSE IF (n.off \div 2) % 2 = 0 THEN Num(n.big, n.off - 1)
         ELSE Num(n.big, n.off + 1)

\* the scalars a pickled dict may hold: Python and numpy numbers and bools
PickleScalars ==
    { [type |-> q[1], n |-> q[2]] :
        q \in ({"int", "numpy.int64"} \X PickleNumbers)
              \cup ({"float", "numpy.float64"}
                    \X {n \in PickleNumbers : IsDouble(n)})
              \cup ({"bool", "numpy.bool_"} \X {Num(FALSE, 1)}) }

\* a one-element numpy array
PickleArray == [type |-> "ndarray", n |-> Num(FALSE, 1)]

\* the artifact has no preprocessing_steps
NoSteps == [has |-> FALSE, vals |-> [k \in {} |-> PickleArray]]

\* the preprocessing_steps an artifact may hold: none, or one step
PickleSteps ==
    {NoSteps} \cup
    { [has |-> TRUE, vals |-> ("variance_threshold" :> v)] :
        v \in PickleScalars \cup {PickleArray} }

\* the sample_features an artifact may hold: none, or the value of A
PickleSamples ==
    {NoSample} \cup
    { [has |-> TRUE, vals |-> (nA :> v)] : v \in PickleScalars }

VARIABLES
    prog,              \* the script that runs: "lef", "cef" or "rfp"
    pc,                \* the position in the script
    pickle,            \* the schema artifact on disk
    csv,               \* the raw CSV on disk
    feature_mapping,   \* the loaded schema
    df,                \* the working DataFrame
    feature_columns,   \* the working feature list
    expected_count,
    actual_cols,
    rename_map,
    missing_features,
    idx,               \* the position of the for loop in feature_columns
    X,                 \* the feature matrix
    files,             \* the output files: preprocessed, ground_truth, json
    log,               \* what the script printed, in order
    outcome,           \* "running", "returned", or the exception raised
    config,            \* rfp: the pipeline configuration and the file system
    stages,            \* rfp: the stages main has started, in order
    prep_result,       \* rfp: what run_preprocessing returned
    row_number,        \* rfp: "none" or "int"
    predictions,       \* rfp: whether the predictor's output held predictions
    exit_code,         \* rfp: what main returned, -1 while it runs
    training_sample,   \* the sample_features of the schema artifact, once
                       \* the script has looked them up
    preprocessing_steps, \* the preprocessing_steps of the schema artifact
    lines,             \* parse_predictions_from_output: the lines of the
                       \* predictor's output
    line_no,           \* the position of its for loop in lines
    capturing,
    captured,          \* the predictions it has appended so far
    matches,           \* cef: the counters of the verification
    total,
    report,            \* cef: the comparisons the verification printed
    run,               \* lef: 1 in the first call, 2 in the second
    first              \* lef: what the first call returned

inputs == <<prog, pickle, csv, config, training_sample, preprocessing_steps>>
verification == <<matches, total, report>>
scraping == <<lines, line_no, capturing, captured>>
history == <<run, first>>
locals == <<feature_mapping, df, feature_columns, expected_count,
            actual_cols, rename_map, missing_features, idx, X>>
pipeline == <<stages, prep_result, row_number, predictions, exit_code>>

vars == <<inputs, locals, pipeline, verification, history, scraping, pc,
          files, log, outcome>>

\* a dict with no key
EmptyMap == [n \in {} |-> <<>>]

\* no schema loaded
NoMapping ==
    [has_count |-> FALSE, feature_count |-> 0,
     has_columns |-> FALSE, feature_columns |-> <<>>]

\* a file: absent, left by an earlier run ("old"), or written by this run
Absent ==
    [state |-> "absent", table |-> <<>>, mapping |-> NoMapping,
     steps |-> NoSteps, sample |-> NoSample]
Old == [Absent EXCEPT !.state = "old"]
WrittenTable(t) == [Absent EXCEPT !.state = "written", !.table = t]
WrittenJson(m, steps, sample) ==
    [Absent EXCEPT !.state = "written", !.mapping = m, !.steps = steps,
                   !.sample = sample]

\* a file that was opened for writing and not written to its end
Partial == [Absent EXCEPT !.state = "partial"]

Exists(f) == f.state # "absent"

NoConfig ==
    [run_before_inference |-> FALSE, skip_if_exists |-> FALSE,
     pickle_exists |-> TRUE]

\* nothing returned yet
NoFirst == [X |-> <<>>, rename_map |-> EmptyMap]

InitLocals ==
    /\ feature_mapping = NoMapping
    /\ df = <<>>
    /\ feature_columns = <<>>
    /\ expected_count = 0
    /\ actual_cols = <<>>
    /\ rename_map = EmptyMap
    /\ missing_features = <<>>
    /\ idx = 0
    /\ X = <<>>
    /\ log = <<>>
    /\ outcome = "running"
    /\ stages = <<>>
    /\ prep_result = "none"
    /\ row_number = "none"
    /\ predictions = FALSE
    /\ exit_code = -1
    /\ matches = 0
    /\ total = 0
    /\ report = <<>>
    /\ run = 1
    /\ first = NoFirst
    /\ training_sample = NoSample
    /\ preprocessing_steps = NoSteps
    /\ capturing = FALSE
    /\ captured = <<>>

InitLef ==
    /\ prog = "lef"
    /\ pc = "lef_load"
    /\ pickle \in Artifacts("lef")
    /\ csv \in RawTables("lef")
    /\ config = NoConfig
    /\ files = [preprocessed |-> Absent, ground_truth |-> Absent, json |-> Absent]
    /\ InitLocals
    /\ lines = <<>>
    /\ line_no = 0

InitCef ==
    /\ prog = "cef"
    /\ pc = "cef_load"
    /\ pickle \in Artifacts("cef")
    /\ csv \in RawTables("cef")
    /\ config = NoConfig
    /\ files = [preprocessed |-> Absent, ground_truth |-> Absent, json |-> Absent]
    /\ InitLocals
    /\ lines = <<>>
    /\ line_no = 0

InitRfp ==
    /\ prog = "rfp"
    /\ pc = "rfp_main"
    /\ pickle \in Artifacts("rfp")
    /\ csv \in RawTables("rfp")
    /\ config \in [run_before_inference : BOOLEAN, skip_if_exists : BOOLEAN,
                   pickle_exists : BOOLEAN]
    /\ files \in [preprocessed : {Absent, Old}, ground_truth : {Absent},
                  json : {Absent, Old}]
    /\ InitLocals
    /\ lines = <<>>
    /\ line_no = 0

Init == InitLef \/ InitCef \/ InitRfp

(***************************************************************************)
(* load_exact_features.py                                                  *)
(***************************************************************************)
\* load_exact_training_features() prints feature_mapping['feature_count']
\* and every name of feature_mapping['feature_columns']: a dict without
\* either key raises KeyError
LefLoadRaises(m) == ~m.has_count \/ ~m.has_columns

\* load_exact_training_features()
LefLoad ==
    /\ pc = "lef_load"
    /\ IF ~LefLoadRaises(pickle)
       THEN /\ feature_mapping' = pickle
            /\ pc' = "lef_read"
            /\ UNCHANGED outcome
       ELSE /\ outcome' = "KeyError"
            /\ pc' = "done"
            /\ UNCHANGED feature_mapping
    /\ UNCHANGED <<inputs, scraping, verification, history,
                   pipeline, df, feature_columns, expected_count,
                   actual_cols, rename_map, missing_features, idx, X, files,
                   log>>

\* step 3: GT_Label is dropped from the copy of the feature list
WorkingFeatures(cols) ==
    IF InList(nGT_Label, cols) THEN ListRemove(cols, nGT_Label) ELSE cols

\* mutant of ReadRaw: the file the previous call wrote is read
ReadWritten(c, fs) ==
    IF fs.preprocessed.state = "written" THEN fs.preprocessed.table ELSE c

\* pd.read_csv(csv_file): the raw CSV, whatever the output files hold
ReadRaw(c, fs) == c

\* mutant of SchemaAfterRemove: the working list is the schema's own list
SchemaAliased(m, working) == [m EXCEPT !.feature_columns = working]

\* the working list is list(feature_mapping['feature_columns']), a new
\* list: feature_columns.remove('GT_Label') leaves the schema m as loaded
SchemaAfterRemove(m, working) == m

\* preprocess_for_inference, steps 1 to 3 and the set-up of the loop
LefRead ==
    /\ pc = "lef_read"
    /\ df' = StripColumns(ReadRaw(csv, files))
    /\ feature_columns' = WorkingFeatures(feature_mapping.feature_columns)
    /\ feature_mapping' =
          SchemaAfterRemove(feature_mapping,
                            WorkingFeatures(feature_mapping.feature_columns))
    /\ expected_count' = feature_mapping.feature_count
    /\ actual_cols' = Columns(StripColumns(ReadRaw(csv, files)))
    /\ rename_map' = EmptyMap
    /\ missing_features' = <<>>
    /\ idx' = 1
    /\ pc' = "lef_match"
    /\ UNCHANGED <<inputs, scraping, verification, history,
                   pipeline, X, files, log, outcome>>

\* one iteration of the matching loop (step 4)
LefMatch ==
    /\ pc = "lef_match"
    /\ idx <= Len(feature_columns)
    /\ LET tgt == feature_columns[idx]
           close == GetCloseMatches(tgt, actual_cols)
       IN  IF InList(tgt, actual_cols)
           THEN UNCHANGED <<rename_map, missing_features, log>>
           ELSE IF close # <<>>
                THEN /\ rename_map' = (close[1] :> tgt) @@ rename_map
                     /\ log' = Append(log, [ev |-> "map", a |-> close[1], b |-> tgt])
                     /\ UNCHANGED missing_features
                ELSE /\ missing_features' = Append(missing_features, tgt)
                     /\ log' = Append(log, [ev |-> "nomatch", a |-> tgt, b |-> tgt])
                     /\ UNCHANGED rename_map
    /\ idx' = idx + 1
    /\ UNCHANGED <<inputs, scraping, verification, history,
                   pipeline, pc, feature_mapping, df, feature_columns,
                   expected_count, actual_cols, X, files, outcome>>

\* mutant of ZeroFill: the columns are filled with 1.0
RECURSIVE ZeroFillOnes(_, _)
ZeroFillOnes(t, cols) ==
    IF cols = <<>> THEN t
    ELSE ZeroFillOnes(SetConstColumn(t, Head(cols), Float(1)), Tail(cols))

\* df with every name of cols, in turn, set to the constant 0.0
RECURSIVE ZeroFill(_, _)
ZeroFill(t, cols) ==
    IF cols = <<>> THEN t
    ELSE ZeroFill(SetConstColumn(t, Head(cols), Float(0)), Tail(cols))

\* steps 5 and 6: the renames in one shot, then the zero columns
LefApply ==
    /\ pc = "lef_match"
    /\ idx > Len(feature_columns)
    /\ df' = ZeroFill(RenameColumns(df, rename_map), missing_features)
    /\ pc' = "lef_extract"
    /\ UNCHANGED <<inputs, scraping, verification, history,
                   pipeline, feature_mapping, feature_columns,
                   expected_count, actual_cols, rename_map, missing_features,
                   idx, X, files, log, outcome>>

\* mutant of LefCountCheck: nothing is printed
LefCountCheckSilent(x, expected, lg) == lg

\* step 8: a count that differs from feature_count is printed as a warning
LefCountCheck(x, expected, lg) ==
    IF Len(x) # expected
    THEN Append(lg, [ev |-> "warn_count", a |-> <<>>, b |-> <<>>])
    ELSE lg

\* mutant of SaveGroundTruth: the labels are saved last row first
SaveGroundTruthReversed(t, old) ==
    IF InList(nGT_Label, Columns(t))
    THEN WrittenTable([c \in 1..Len(ColumnsLabelled(t, nGT_Label)) |->
            [name |-> nGT_Label,
             vals |-> [r \in 1..NRows(t) |->
                         ColumnsLabelled(t, nGT_Label)[c].vals[NRows(t) + 1 - r]]]])
    ELSE old

\* step 10: GT_Label, when it is a column of df, is saved
SaveGroundTruth(t, old) ==
    IF InList(nGT_Label, Columns(t))
    THEN WrittenTable(ColumnsLabelled(t, nGT_Label))
    ELSE old

\* steps 7 to 10: extract X, warn on the count, save X and GT_Label
LefExtract ==
    /\ pc = "lef_extract"
    /\ IF SelectRaises(df, feature_columns)
       THEN /\ outcome' = "KeyError"
            /\ UNCHANGED <<X, files, log>>
       ELSE LET x == SelectColumns(df, feature_columns)
            IN  /\ X' = x
                /\ log' = LefCountCheck(x, expected_count, log)
                /\ files' = [files EXCEPT
                               !.preprocessed = WrittenTable(x),
                               !.ground_truth = SaveGroundTruth(df, @)]
                /\ outcome' = "returned"
    /\ pc' = "done"
    /\ UNCHANGED <<inputs, scraping, verification, history,
                   pipeline, feature_mapping, df, feature_columns,
                   expected_count, actual_cols, rename_map, missing_features,
                   idx>>

\* preprocess_for_inference is called a second time on the same schema and
\* the same raw CSV: its locals are new, the files of the first call stay
LefRerun ==
    /\ prog = "lef"
    /\ pc = "done"
    /\ outcome = "returned"
    /\ run = 1
    /\ run' = 2
    /\ first' = [X |-> X, rename_map |-> rename_map]
    /\ pc' = "lef_read"
    /\ outcome' = "running"
    /\ X' = <<>>
    /\ log' = <<>>
    /\ UNCHANGED <<inputs, scraping, verification, pipeline, feature_mapping, df,
                   feature_columns, expected_count, actual_cols, rename_map,
                   missing_features, idx, files>>

(***************************************************************************)
(* create_exact_preprocessing.py                                           *)
(***************************************************************************)
\* the numerical_features list of create_exact_features
numerical_features ==
    << <<"A", "n", "o", "m", "a", "l", "y", "S", "c", "o", "r", "e">>,
       <<"R", "e", "g", "i", "o", "n", "A", "r", "e", "a">>,
       <<"M", "a", "x", "V", "a", "l">>,
       <<"R", "e", "g", "i", "o", "n", "C", "o", "u", "n", "t">>,
       <<"B", "u", "r", "n", "T", "h", "r", "u">>,
       <<"C", "o", "n", "c", "a", "v", "i", "t", "y">>,
       <<"G", "o", "o", "d">>,
       <<"P", "o", "r", "o", "s", "i", "t", "y">>,
       <<"S", "k", "i", "p">>,
       <<"R", "e", "g", "i", "o", "n", "R", "o", "w">>,
       <<"R", "e", "g", "i", "o", "n", "C", "o", "l">>,
       <<"R", "e", "g", "i", "o", "n", "A", "r", "e", "a", "F", "r", "a", "c">>,
       <<"C", "L", "_", "C", "o", "n", "f", "M", "a", "x">>,
       <<"C", "L", "_", "C", "o", "n", "f", "M", "a", "r", "g", "i", "n">> >>

\* load_exact_training_features() and pd.read_csv: no key is looked up
CefLoad ==
    /\ pc = "cef_load"
    /\ feature_mapping' = pickle
    /\ df' = csv
    /\ pc' = "cef_numerical"
    /\ UNCHANGED <<inputs, scraping, verification, history,
                   pipeline, feature_columns, expected_count,
                   actual_cols, rename_map, missing_features, idx, X, files,
                   log, outcome>>

\* step 1 of create_exact_features: X[feature] = df[feature] for every
\* numerical feature, in the order of the list, that is a column of df and
\* an expected feature
RECURSIVE AddNumerical(_, _, _, _)
AddNumerical(x, t, expected, feats) ==
    IF feats = <<>> THEN x
    ELSE LET f == Head(feats)
             x1 == IF InList(f, Columns(t)) /\ InList(f, expected)
                   THEN x \o ColumnsLabelled(t, f)
                   ELSE x
         IN  AddNumerical(x1, t, expected, Tail(feats))

\* create_exact_features up to step 1; feature_mapping['feature_columns']
\* raises KeyError when the key is absent
CefNumerical ==
    /\ pc = "cef_numerical"
    /\ IF ~feature_mapping.has_columns
       THEN /\ outcome' = "KeyError"
            /\ pc' = "done"
            /\ UNCHANGED <<feature_columns, X>>
       ELSE /\ feature_columns' = feature_mapping.feature_columns
            /\ X' = AddNumerical(<<>>, df, feature_mapping.feature_columns,
                                 numerical_features)
            /\ pc' = "cef_weld"
            /\ UNCHANGED outcome
    /\ UNCHANGED <<inputs, scraping, verification, history,
                   pipeline, feature_mapping, df, expected_count,
                   actual_cols, rename_map, missing_features, idx, files, log>>

\* [col for col in expected_features if col.startswith('Weld_')]
RECURSIVE WeldFeatures(_)
WeldFeatures(expected) ==
    IF expected = <<>> THEN <<>>
    ELSE (IF StartsWith(Head(expected), nWeld_) THEN <<Head(expected)>> ELSE <<>>)
         \o WeldFeatures(Tail(expected))

\* (df['Weld'] == weld_name).astype(int)
OneHot(column, weld_name) ==
    [r \in 1..Len(column.vals) |->
        IF column.vals[r].kind = "str" /\ column.vals[r].s = weld_name
        THEN IntCell(1) ELSE IntCell(0)]

\* X[weld_feature] = ... for every expected Weld_ feature, in turn
RECURSIVE AddWeld(_, _, _)
AddWeld(x, weld, feats) ==
    IF feats = <<>> THEN x
    ELSE AddWeld(Append(x, [name |-> Head(feats),
                            vals |-> OneHot(weld,
                                            RemoveAll(Head(feats), nWeld_))]),
                 weld, Tail(feats))

\* step 2: df['Weld'] raises KeyError when there are Weld_ features and the
\* raw data has no Weld column
CefWeld ==
    /\ pc = "cef_weld"
    /\ LET weld_features == WeldFeatures(feature_columns)
       IN  IF weld_features = <<>>
           THEN /\ pc' = "cef_check"
                /\ UNCHANGED <<X, outcome>>
           ELSE IF ~InList(nWeld, Columns(df))
                THEN /\ outcome' = "KeyError"
                     /\ pc' = "done"
                     /\ UNCHANGED X
                ELSE /\ X' = AddWeld(X, ColumnsLabelled(df, nWeld)[1],
                                     weld_features)
                     /\ pc' = "cef_check"
                     /\ UNCHANGED outcome
    /\ UNCHANGED <<inputs, scraping, verification, history,
                   pipeline, feature_mapping, df, feature_columns,
                   expected_count, actual_cols, rename_map, missing_features,
                   idx, files, log>>

\* set(expected_features) - set(X.columns)
MissingFeatures(expected, x) ==
    { expected[k] : k \in 1..Len(expected) } \ { x[k].name : k \in 1..Len(x) }

\* steps 3 and 4: ValueError when an expected feature was not created, else
\* X reordered; create_exact_features returns it
CefCheck ==
    /\ pc = "cef_check"
    /\ IF MissingFeatures(feature_columns, X) # {}
       THEN /\ outcome' = "ValueError"
            /\ pc' = "done"
            /\ UNCHANGED X
       ELSE /\ X' = SelectColumns(X, feature_columns)
            /\ outcome' = "returned"
            /\ pc' = "cef_save"
    /\ UNCHANGED <<inputs, scraping, verification, history,
                   pipeline, feature_mapping, df, feature_columns,
                   expected_count, actual_cols, rename_map, missing_features,
                   idx, files, log>>

\* preprocess_for_exact_inference: X and GT_Label are saved; then the
\* artifact's sample_features, which nothing has looked at so far, are
\* looked up: they are absent, or one of the reference samples
CefSave ==
    /\ pc = "cef_save"
    /\ files' = [files EXCEPT !.preprocessed = WrittenTable(X),
                              !.ground_truth = SaveGroundTruth(df, @)]
    /\ \E sample \in Samples(prog) :
          /\ training_sample' = sample
          /\ pc' = IF sample.has THEN "cef_verify" ELSE "done"
    /\ UNCHANGED <<prog, pickle, csv, config, preprocessing_steps, scraping,
                   verification, history, pipeline, locals, log, outcome>>

\* mutant of InSample: every column counts as a key of the sample
InSampleAlways(col, sample) == col \in DOMAIN sample

\* col in training_sample
InSample(col, sample) ==
    col \in DOMAIN sample /\ sample[col].kind # "absent"

\* abs(x)
Abs(x) == IF x < 0 THEN -x ELSE x

\* mutant of Match: every reference value is compared as a float
MatchAsFloat(our, ref) ==
    Abs(our - (IF ref.kind = "bool" THEN (IF ref.b THEN Unit ELSE 0)
               ELSE ref.v)) < Tolerance

\* the comparison of one feature: bool(our_val) == training_val for a bool,
\* abs(float(our_val) - float(training_val)) < 1e-6 otherwise
Match(our, ref) ==
    IF ref.kind = "bool" THEN (our # 0) = ref.b
    ELSE Abs(our - ref.v) < Tolerance

\* the loop over X.columns from column k on: a column that is a key of the
\* sample is compared, printed and counted
RECURSIVE VerifyFrom(_, _, _, _)
VerifyFrom(x, sample, k, acc) ==
    IF k > Len(x) THEN acc
    ELSE IF ~InSample(x[k].name, sample)
    THEN VerifyFrom(x, sample, k + 1, acc)
    ELSE LET our == OurValue(x[k].vals[1])
             ref == sample[x[k].name]
             match == Match(our, ref)
         IN  VerifyFrom(x, sample, k + 1,
                [matches |-> IF match THEN acc.matches + 1 ELSE acc.matches,
                 total |-> acc.total + 1,
                 report |-> Append(acc.report,
                               [col |-> x[k].name, our |-> our, ref |-> ref,
                                match |-> match])])

\* the verification of the first row against the sample; the summary line
\* divides matches by total
CefVerify ==
    /\ pc = "cef_verify"
    /\ LET res == VerifyFrom(X, training_sample.vals, 1,
                             [matches |-> 0, total |-> 0, report |-> <<>>])
       IN  /\ matches' = res.matches
           /\ total' = res.total
           /\ report' = res.report
           /\ outcome' = IF res.total = 0 THEN "ZeroDivisionError"
                         ELSE outcome
    /\ pc' = "done"
    /\ UNCHANGED <<inputs, scraping, history, pipeline, locals, files, log>>

(***************************************************************************)
(* Run_Full_Pipeline.py                                                    *)
(***************************************************************************)
\* main returns code
Return(code) ==
    /\ exit_code' = code
    /\ pc' = "done"

\* main, the preprocessing switch
RfpMain ==
    /\ pc = "rfp_main"
    /\ IF config.run_before_inference
       THEN /\ pc' = "rfp_prep"
            /\ stages' = Append(stages, "preprocessing")
       ELSE /\ pc' = "rfp_appsettings"
            /\ UNCHANGED stages
    /\ UNCHANGED <<inputs, scraping, verification, history,
                   locals, files, log, outcome, prep_result,
                   row_number, predictions, exit_code>>

\* mutant of SkipPreprocessing: one of the two outputs is enough
SkipIfEitherExists(cfg, fs) ==
    cfg.skip_if_exists /\ (Exists(fs.preprocessed) \/ Exists(fs.json))

\* run_preprocessing skips when asked to and both outputs exist
SkipPreprocessing(cfg, fs) ==
    cfg.skip_if_exists /\ Exists(fs.preprocessed) /\ Exists(fs.json)

\* run_preprocessing up to the try block
RfpPrep ==
    /\ pc = "rfp_prep"
    /\ IF SkipPreprocessing(config, files)
       THEN /\ prep_result' = "True"
            /\ pc' = "rfp_appsettings"
            /\ UNCHANGED exit_code
       ELSE IF ~config.pickle_exists
            THEN /\ prep_result' = "False"
                 /\ Return(1)
            ELSE /\ pc' = "rfp_convert"
                 /\ UNCHANGED <<prep_result, exit_code>>
    /\ UNCHANGED <<inputs, scraping, verification, history,
                   locals, files, log, outcome, stages, row_number,
                   predictions>>

\* the json_mapping convert_pickle_to_json builds
JsonMapping(m) ==
    [has_count |-> TRUE, feature_count |-> m.feature_count,
     has_columns |-> TRUE, feature_columns |-> m.feature_columns]

\* mutant of ConvertRaises: only feature_count is looked up
ConvertRaisesCountOnly(m) == ~m.has_count

\* convert_pickle_to_json looks up feature_mapping['feature_count'] and
\* feature_mapping['feature_columns'] before it writes anything
ConvertRaises(m) == ~m.has_count \/ ~m.has_columns

\* float(value)
ToFloat(value) == [type |-> "float", n |-> RoundToDouble(value.n)]

\* a step's value: an array becomes a list, a numpy.int64 or numpy.float64
\* becomes a float, anything else is kept
ConvertStep(value) ==
    IF value.type = "ndarray" THEN [value EXCEPT !.type = "list"]
    ELSE IF value.type \in {"numpy.int64", "numpy.float64"} THEN ToFloat(value)
    ELSE value

\* a sample value: a numpy.int64 or numpy.float64 becomes a float, anything
\* else is kept
ConvertSampleValue(val) ==
    IF val.type \in {"numpy.int64", "numpy.float64"} THEN ToFloat(val)
    ELSE val

\* json_mapping['preprocessing_steps']: always there, empty when the
\* artifact has none
JsonSteps(steps) ==
    [has |-> TRUE,
     vals |-> [k \in DOMAIN steps.vals |-> ConvertStep(steps.vals[k])]]

\* mutant of JsonSample: sample_features is always there, empty when the
\* artifact has none
JsonSampleAlways(sample) ==
    IF sample.has
    THEN [has |-> TRUE,
          vals |-> [k \in DOMAIN sample.vals |->
                      ConvertSampleValue(sample.vals[k])]]
    ELSE [has |-> TRUE, vals |-> EmptyMap]

\* json_mapping['sample_features']: there when the artifact has them
JsonSample(sample) ==
    IF sample.has
    THEN [has |-> TRUE,
          vals |-> [k \in DOMAIN sample.vals |->
                      ConvertSampleValue(sample.vals[k])]]
    ELSE NoSample

\* json.dump raises TypeError on a value that is no Python number, bool,
\* string, list or dict
DumpRaises(steps, sample) ==
    LET serializable(v) == v.type \in {"int", "float", "bool", "list"}
    IN  \/ \E k \in DOMAIN steps.vals : ~serializable(steps.vals[k])
        \/ sample.has /\ \E k \in DOMAIN sample.vals :
                            ~serializable(sample.vals[k])

\* convert_pickle_to_json: a KeyError on a missing key, or the TypeError of
\* json.dump once the JSON file is open, is caught by run_preprocessing,
\* which returns False, and main returns 1
RfpConvert ==
    /\ pc = "rfp_convert"
    /\ IF ConvertRaises(pickle)
       THEN /\ outcome' = "KeyError"
            /\ prep_result' = "False"
            /\ Return(1)
            /\ UNCHANGED files
       ELSE IF DumpRaises(JsonSteps(preprocessing_steps),
                          JsonSample(training_sample))
       THEN /\ files' = [files EXCEPT !.json = Partial]
            /\ outcome' = "TypeError"
            /\ prep_result' = "False"
            /\ Return(1)
       ELSE /\ files' = [files EXCEPT !.json =
                           WrittenJson(JsonMapping(pickle),
                                       JsonSteps(preprocessing_steps),
                                       JsonSample(training_sample))]
            /\ pc' = "rfp_load"
            /\ UNCHANGED <<outcome, prep_result, exit_code>>
    /\ UNCHANGED <<inputs, scraping, verification, history,
                   locals, log, stages, row_number, predictions>>

\* load_exact_training_features(pickle_path)
RfpLoad ==
    /\ pc = "rfp_load"
    /\ IF pickle.has_count /\ pickle.has_columns
       THEN /\ feature_mapping' = pickle
            /\ pc' = "rfp_preprocess"
            /\ UNCHANGED <<outcome, prep_result, exit_code>>
       ELSE /\ outcome' = "KeyError"
            /\ prep_result' = "False"
            /\ Return(1)
            /\ UNCHANGED feature_mapping
    /\ UNCHANGED <<inputs, scraping, verification, history,
                   df, feature_columns, expected_count, actual_cols,
                   rename_map, missing_features, idx, X, files, log, stages,
                   row_number, predictions>>

\* preprocess_for_inference of the pipeline: KeyError on a missing column,
\* ValueError on a count mismatch, else X and GT_Label are saved; an
\* exception makes run_preprocessing return False and main return 1
RfpPreprocess ==
    /\ pc = "rfp_preprocess"
    /\ df' = csv
    /\ feature_columns' = feature_mapping.feature_columns
    /\ expected_count' = feature_mapping.feature_count
    /\ IF SelectRaises(csv, feature_mapping.feature_columns)
       THEN /\ outcome' = "KeyError"
            /\ prep_result' = "False"
            /\ Return(1)
            /\ UNCHANGED <<X, files>>
       ELSE LET x == SelectColumns(csv, feature_mapping.feature_columns)
            IN  /\ X' = x
                /\ IF Len(x) # feature_mapping.feature_count
                   THEN /\ outcome' = "ValueError"
                        /\ prep_result' = "False"
                        /\ Return(1)
                        /\ UNCHANGED files
                   ELSE /\ files' = [files EXCEPT
                                       !.preprocessed = WrittenTable(x),
                                       !.ground_truth = SaveGroundTruth(csv, @)]
                        /\ outcome' = "returned"
                        /\ prep_result' = "True"
                        /\ pc' = "rfp_appsettings"
                        /\ UNCHANGED exit_code
    /\ UNCHANGED <<inputs, scraping, verification, history,
                   feature_mapping, actual_cols, rename_map,
                   missing_features, idx, log, stages, row_number, predictions>>

\* update_appsettings returns True, or False on any exception
RfpAppsettings ==
    /\ pc = "rfp_appsettings"
    /\ stages' = Append(stages, "appsettings")
    /\ \E ok \in BOOLEAN :
          IF ok THEN pc' = "rfp_argv" /\ UNCHANGED exit_code
          ELSE Return(1)
    /\ UNCHANGED <<inputs, scraping, verification, history,
                   locals, files, log, outcome, prep_result,
                   row_number, predictions>>

\* the row number on the command line: none, an integer, or not a number
RfpArgv ==
    /\ pc = "rfp_argv"
    /\ \E arg \in {"none", "int", "bad"} :
          IF arg = "bad" THEN Return(1) /\ UNCHANGED row_number
          ELSE row_number' = arg /\ pc' = "rfp_build" /\ UNCHANGED exit_code
    /\ UNCHANGED <<inputs, scraping, verification, history,
                   locals, files, log, outcome, stages, prep_result,
                   predictions>>

\* run_csharp_prediction: the project file must exist and the build succeed
RfpBuild ==
    /\ pc = "rfp_build"
    /\ \E csproj_exists \in BOOLEAN, built \in BOOLEAN :
          IF ~csproj_exists
          THEN Return(1) /\ UNCHANGED stages
          ELSE /\ stages' = Append(stages, "build")
               /\ IF built THEN pc' = "rfp_run" /\ UNCHANGED exit_code
                  ELSE Return(1)
    /\ UNCHANGED <<inputs, scraping, verification, history,
                   locals, files, log, outcome, prep_result,
                   row_number, predictions>>

(***************************************************************************)
(* parse_predictions_from_output.  A line of the predictor's output is a   *)
(* sequence of words: a blank, a marker, the opening of a JSON object with *)
(* the key row or label, a number, the closing brace, or other text.       *)
(***************************************************************************)
PREDICTIONS_START == <<"PREDICTIONS_START">>
PREDICTIONS_END == <<"PREDICTIONS_END">>
RowOpen == "{\"row\":"
LabelOpen == "{\"label\":"

\* the lines a predictor may print: the markers, one of them indented, two
\* predictions, one of them indented, a cut-off prediction, and a JSON
\* object that is no prediction
OutputLines ==
    { PREDICTIONS_START, <<" ">> \o PREDICTIONS_START, PREDICTIONS_END,
      <<RowOpen, "0", "}">>, <<" ", RowOpen, "1", "}", " ">>,
      <<RowOpen, "1">>, <<LabelOpen, "1", "}">> }

\* output_text.split('\n') of the outputs of up to n lines
RECURSIVE Outputs(_)
Outputs(n) ==
    IF n = 0 THEN {<<>>}
    ELSE Outputs(n - 1) \cup
         { Append(o, l) : <<o, l>> \in
             {q \in Outputs(n - 1) \X OutputLines : Len(q[1]) = n - 1} }

\* json.loads(line): an object of one key and one number, or
\* JSONDecodeError
JsonLoads(line) ==
    IF /\ Len(line) = 3
       /\ line[1] \in {RowOpen, LabelOpen}
       /\ line[2] \in {"0", "1"}
       /\ line[3] = "}"
    THEN [ok |-> TRUE, key |-> line[1], number |-> line[2]]
    ELSE [ok |-> FALSE, key |-> "", number |-> ""]

\* mutant of ScrapeLine: PREDICTIONS_END does not end the capturing
ScrapeLineNoEnd(st, raw) ==
    LET line == Strip(raw)
    IN  IF line = PREDICTIONS_START THEN [st EXCEPT !.capturing = TRUE]
        ELSE IF line = PREDICTIONS_END THEN st
        ELSE IF st.capturing /\ StartsWith(line, <<RowOpen>>)
             THEN IF JsonLoads(line).ok
                  THEN [st EXCEPT !.predictions = Append(@, JsonLoads(line))]
                  ELSE st
             ELSE st

\* the body of the for loop: st holds capturing and predictions
ScrapeLine(st, raw) ==
    LET line == Strip(raw)
    IN  IF line = PREDICTIONS_START THEN [st EXCEPT !.capturing = TRUE]
        ELSE IF line = PREDICTIONS_END THEN [st EXCEPT !.capturing = FALSE]
        ELSE IF st.capturing /\ StartsWith(line, <<RowOpen>>)
             THEN IF JsonLoads(line).ok
                  THEN [st EXCEPT !.predictions = Append(@, JsonLoads(line))]
                  ELSE st
             ELSE st

\* the for loop over the lines from line k on
RECURSIVE ScrapeFrom(_, _, _)
ScrapeFrom(st, output, k) ==
    IF k > Len(output) THEN st
    ELSE ScrapeFrom(ScrapeLine(st, output[k]), output, k + 1)

parse_predictions_from_output(output) ==
    ScrapeFrom([capturing |-> FALSE, predictions |-> <<>>], output, 1).predictions

\* one iteration of the for loop
ParseLine ==
    /\ pc = "parse_loop"
    /\ line_no <= Len(lines)
    /\ LET st == ScrapeLine([capturing |-> capturing, predictions |-> captured],
                            lines[line_no])
       IN  /\ capturing' = st.capturing
           /\ captured' = st.predictions
    /\ line_no' = line_no + 1
    /\ UNCHANGED <<inputs, locals, pipeline, verification, history, lines,
                   pc, files, log, outcome>>

\* return predictions
ParseReturn ==
    /\ pc = "parse_loop"
    /\ line_no > Len(lines)
    /\ pc' = "done"
    /\ outcome' = "returned"
    /\ UNCHANGED <<inputs, locals, pipeline, verification, history, scraping,
                   files, log>>

\* what the predictor printed in a run of the pipeline: nothing to
\* capture, or one prediction between the markers
RunOutputs ==
    { <<>>, <<PREDICTIONS_START, <<RowOpen, "0", "}">>, PREDICTIONS_END>> }

\* run_csharp_prediction: the predictor runs; its output is parsed when all
\* rows were run
RfpRun ==
    /\ pc = "rfp_run"
    /\ stages' = Append(stages, "run")
    /\ \E ran \in BOOLEAN, stdout \in RunOutputs :
          IF ~ran THEN Return(1) /\ UNCHANGED predictions
          ELSE /\ predictions' =
                    (/\ row_number = "none"
                     /\ parse_predictions_from_output(stdout) # <<>>)
               /\ pc' = "rfp_confusion"
               /\ UNCHANGED exit_code
    /\ UNCHANGED <<inputs, scraping, verification, history,
                   locals, files, log, outcome, prep_result,
                   row_number>>

\* gt_numeric: 1 for the label Bad, 0 for any other
GtNumeric(gt_file) ==
    IF gt_file.table = <<>> THEN <<>>
    ELSE [r \in 1..NRows(gt_file.table) |->
            IF gt_file.table[1].vals[r] = Str(<<"B", "a", "d">>) THEN 1 ELSE 0]

\* compute_confusion_matrix: False without a ground-truth file; else both
\* lists are cut to the shorter one and confusion_matrix has one row and
\* one column per class that occurs in them, so that cm[0, 1] raises
\* IndexError when there is one class only; else True
ConfusionMatrix(gt_file, pred_numeric) ==
    LET gt == GtNumeric(gt_file)
        min_length == IF Len(gt) < Len(pred_numeric) THEN Len(gt)
                      ELSE Len(pred_numeric)
        classes == {gt[i] : i \in 1..min_length}
                   \cup {pred_numeric[i] : i \in 1..min_length}
    IN  IF ~Exists(gt_file) THEN "False"
        ELSE IF Cardinality(classes) < 2 THEN "IndexError"
        ELSE "True"

\* main: the confusion matrix when all rows were run and predictions were
\* parsed, whatever labels the predictor gave; False is a warning only, an
\* exception leaves main
RfpConfusion ==
    /\ pc = "rfp_confusion"
    /\ IF row_number = "none" /\ predictions
       THEN /\ stages' = Append(stages, "confusion")
            /\ \E pred_numeric \in [1..NumRows -> {0, 1}] :
                  LET res == ConfusionMatrix(files.ground_truth, pred_numeric)
                  IN  IF res \in {"True", "False"}
                      THEN Return(0) /\ UNCHANGED outcome
                      ELSE /\ outcome' = res
                           /\ pc' = "done"
                           /\ UNCHANGED exit_code
       ELSE /\ Return(0)
            /\ UNCHANGED <<stages, outcome>>
    /\ UNCHANGED <<inputs, scraping, verification, history,
                   locals, files, log, prep_result,
                   row_number, predictions>>

\* a file as the next run finds it
LeftBehind(f) == IF Exists(f) THEN [f EXCEPT !.state = "old"] ELSE f

\* the pipeline is run again, on the same inputs, after a run whose
\* preprocessing failed: a new process, with the files the first run left
RfpRerun ==
    /\ prog = "rfp"
    /\ pc = "done"
    /\ run = 1
    /\ prep_result = "False"
    /\ run' = 2
    /\ pc' = "rfp_main"
    /\ files' = [k \in DOMAIN files |-> LeftBehind(files[k])]
    /\ feature_mapping' = NoMapping
    /\ df' = <<>>
    /\ feature_columns' = <<>>
    /\ expected_count' = 0
    /\ X' = <<>>
    /\ outcome' = "running"
    /\ stages' = <<>>
    /\ prep_result' = "none"
    /\ exit_code' = -1
    /\ UNCHANGED <<inputs, scraping, verification, first, actual_cols,
                   rename_map, missing_features, idx, log, row_number,
                   predictions>>

Next ==
    \/ LefLoad
    \/ LefRead
    \/ LefMatch
    \/ LefApply
    \/ LefExtract
    \/ LefRerun
    \/ CefLoad
    \/ CefNumerical
    \/ CefWeld
    \/ CefCheck
    \/ CefSave
    \/ CefVerify
    \/ RfpMain
    \/ RfpPrep
    \/ RfpConvert
    \/ RfpLoad
    \/ RfpPreprocess
    \/ RfpAppsettings
    \/ RfpArgv
    \/ RfpBuild
    \/ RfpRun
    \/ RfpConfusion
    \/ RfpRerun

Spec == Init /\ [][Next]_vars

(***************************************************************************)
(* convert_pickle_to_json on its own: an artifact with any of the          *)
(* preprocessing_steps and sample_features is converted.                   *)
(***************************************************************************)
InitConvert ==
    /\ prog = "rfp"
    /\ pc = "rfp_convert"
    /\ pickle \in Artifacts("rfp")
    /\ csv = ScenarioCsv
    /\ config = [run_before_inference |-> TRUE, skip_if_exists |-> FALSE,
                 pickle_exists |-> TRUE]
    /\ files = [preprocessed |-> Absent, ground_truth |-> Absent, json |-> Absent]
    /\ training_sample \in PickleSamples
    /\ preprocessing_steps \in PickleSteps
    /\ lines = <<>>
    /\ line_no = 0
    /\ capturing = FALSE
    /\ captured = <<>>
    /\ feature_mapping = NoMapping
    /\ df = <<>>
    /\ feature_columns = <<>>
    /\ expected_count = 0
    /\ actual_cols = <<>>
    /\ rename_map = EmptyMap
    /\ missing_features = <<>>
    /\ idx = 0
    /\ X = <<>>
    /\ log = <<>>
    /\ outcome = "running"
    /\ stages = <<"preprocessing">>
    /\ prep_result = "none"
    /\ row_number = "none"
    /\ predictions = FALSE
    /\ exit_code = -1
    /\ matches = 0
    /\ total = 0
    /\ report = <<>>
    /\ run = 1
    /\ first = NoFirst

NextConvert == RfpConvert

SpecConvert == InitConvert /\ [][NextConvert]_vars

(***************************************************************************)
(* parse_predictions_from_output on its own: any output of up to MaxLines  *)
(* lines is parsed, line by line.                                          *)
(***************************************************************************)
InitParse ==
    /\ prog = "parse"
    /\ pc = "parse_loop"
    /\ pickle = NoMapping
    /\ csv = <<>>
    /\ config = NoConfig
    /\ files = [preprocessed |-> Absent, ground_truth |-> Absent, json |-> Absent]
    /\ InitLocals
    /\ lines \in Outputs(MaxLines)
    /\ line_no = 1

NextParse ==
    \/ ParseLine
    \/ ParseReturn

SpecParse == InitParse /\ [][NextParse]_vars

(***************************************************************************)
(* The claims.                                                             *)
(***************************************************************************)
\* the schema artifact has both keys and its count is the length of its list
WellFormed(m) ==
    m.has_count /\ m.has_columns /\ m.feature_count = Len(m.feature_columns)

\* the column labelled f of table t, when there is exactly one
IsConstColumn(t, f, value) ==
    /\ Len(ColumnsLabelled(t, f)) = 1
    /\ \A r \in 1..Len(ColumnsLabelled(t, f)[1].vals) :
          ColumnsLabelled(t, f)[1].vals[r] = value

\* the matching loop of load_exact_features.py has ended
LefLoopDone ==
    prog = "lef" /\ pc \in {"lef_extract", "done"} /\ ~LefLoadRaises(pickle)

\* C1 (order invariant): whenever a reconciler returns a matrix (of at
\* least one column) for a well-formed schema, the sequence of its column
\* names is the schema's feature_columns.
C1_OrderInvariant ==
    (WellFormed(pickle) /\ outcome = "returned" /\ X # <<>>)
    => Columns(X) = feature_mapping.feature_columns

\* C2 (count invariant): whenever a reconciler returns a matrix (of at
\* least one column) for a well-formed schema, its number of columns is the
\* schema's feature_count.
C2_CountInvariant ==
    (WellFormed(pickle) /\ outcome = "returned" /\ X # <<>>)
    => Len(X) = feature_mapping.feature_count

\* C3 (exact-match precedence): after the matching loop of
\* load_exact_features.py on a well-formed schema, a raw column whose
\* trimmed name is a feature name is not renamed to another feature, and it
\* is the column that supplies the feature in the returned matrix.
C3_ExactMatchPrecedence ==
    (LefLoopDone /\ WellFormed(pickle)) =>
       \A k \in 1..Len(feature_columns) :
          InList(feature_columns[k], actual_cols) =>
             /\ feature_columns[k] \notin DOMAIN rename_map
             /\ outcome = "returned" =>
                   ColumnsLabelled(X, feature_columns[k])
                      = ColumnsLabelled(StripColumns(csv), feature_columns[k])

\* C4 (claim exclusivity): after the matching loop on a well-formed schema
\* no raw column was claimed by two features, and every feature that
\* obtained a fuzzy match (printed as a mapping) still has that mapping in
\* rename_map.
C4_ClaimExclusivity ==
    (LefLoopDone /\ WellFormed(pickle)) =>
       \A i \in 1..Len(log) :
          log[i].ev = "map" =>
             /\ log[i].a \in DOMAIN rename_map
             /\ rename_map[log[i].a] = log[i].b
             /\ \A j \in 1..Len(log) :
                   (log[j].ev = "map" /\ log[j].a = log[i].a) => j = i

\* C5 (graceful degradation): with a well-formed schema no reconciler raises
\* an exception, whatever the raw dataset.
C5_GracefulDegradation ==
    WellFormed(pickle) => outcome \in {"running", "returned"}

\* no exact and no fuzzy match exists for feature f among the raw columns
NoMatch(f) ==
    ~InList(f, actual_cols) /\ GetCloseMatches(f, actual_cols) = <<>>

\* the zero-fill statement over the feature list feats
ZeroFillFallback(feats) ==
    /\ \A k \in 1..Len(feats) :
          NoMatch(feats[k]) =>
             /\ InList(feats[k], missing_features)
             /\ outcome = "returned" => IsConstColumn(X, feats[k], Float(0))
    /\ \A k \in 1..Len(missing_features) :
          InList(missing_features[k], feats) /\ NoMatch(missing_features[k])

C7_EndToEndScenario ==
    (/\ prog \in {"lef", "cef"}
     /\ pc = "done"
     /\ csv = ScenarioCsv
     /\ WellFormed(pickle)
     /\ pickle.feature_columns = ScenarioFeatures)
    => /\ outcome = "returned"
       /\ X = << [name |-> nA, vals |-> ScenarioCsv[1].vals],
                 [name |-> nB_x, vals |-> <<IntCell(1), IntCell(0)>>],
                 [name |-> nC, vals |-> <<Float(0), Float(0)>>] >>
       /\ missing_features = <<nC>>

\* C8 (malformed schema): when feature_count differs from the length of
\* feature_columns, no matching is attempted, no output file is written and
\* the run ends in an error.
C8_MalformedSchemaFatal ==
    (/\ prog \in {"lef", "rfp"}
     /\ pickle.has_count /\ pickle.has_columns
     /\ pickle.feature_count # Len(pickle.feature_columns))
    => /\ log = <<>>
       /\ X = <<>>
       /\ files.preprocessed.state # "written"
       /\ files.ground_truth.state # "written"
       /\ files.json.state # "written"
       /\ outcome # "returned"

\* C9 (count mismatch is fatal): when the extracted matrix (of at least one
\* column) has a number of columns other than feature_count, the reconciler
\* raises, does not return the matrix and writes neither the preprocessed
\* CSV nor the ground truth.
C9_CountMismatchFatal ==
    (/\ prog \in {"lef", "rfp"}
     /\ outcome \in {"returned", "ValueError"}
     /\ X # <<>>
     /\ Len(X) # expected_count)
    => /\ outcome = "ValueError"
       /\ files.preprocessed.state # "written"
       /\ files.ground_truth.state # "written"

\* run_preprocessing got as far as reading the pickle
LoadAttempted ==
    /\ prog = "rfp"
    /\ pc \notin {"rfp_main", "rfp_prep", "rfp_convert"}
    /\ config.run_before_inference
    /\ config.pickle_exists
    /\ ~SkipPreprocessing(config, files)

\* C10 (schema load failure): an artifact without feature_count or without
\* feature_columns makes the load raise KeyError; in the pipeline
\* run_preprocessing then returns False and main returns 1, with no feature
\* JSON and no matrix written and the predictor neither built nor run.
C10_SchemaLoadFailure ==
    /\ (prog = "lef" /\ pc # "lef_load"
        /\ (~pickle.has_count \/ ~pickle.has_columns))
       => /\ pc = "done" /\ outcome = "KeyError"
          /\ X = <<>>
          /\ files.preprocessed.state # "written"
    /\ (LoadAttempted /\ (~pickle.has_count \/ ~pickle.has_columns))
       => /\ pc = "done" /\ outcome = "KeyError"
          /\ prep_result = "False"
          /\ exit_code = 1
          /\ X = <<>>
          /\ files.preprocessed.state # "written"
          /\ files.json.state # "written"
          /\ ~InList("build", stages)
          /\ ~InList("run", stages)

\* C10 witness: the pipeline ended with 1 on an artifact that has
\* feature_count and lacks feature_columns.
C10_Witness ==
    /\ LoadAttempted
    /\ pickle.has_count /\ ~pickle.has_columns
    /\ pc = "done" /\ exit_code = 1 /\ prep_result = "False"

\* the matching loop of load_exact_features.py is running or has ended
LefLoopEntered ==
    prog = "lef" /\ pc \in {"lef_match", "lef_extract", "done"}
                 /\ ~LefLoadRaises(pickle)

\* C11 (label exclusion): after the matching loop of load_exact_features.py
\* on a well-formed schema the raw column GT_Label has not been claimed by
\* any feature, and a returned matrix has no column GT_Label.
C11_LabelExclusion ==
    (LefLoopDone /\ WellFormed(pickle)) =>
       /\ nGT_Label \notin DOMAIN rename_map
       /\ outcome = "returned" => ~InList(nGT_Label, Columns(X))

\* the score of raw column c for feature f: at least / below the cutoff 0.6
ScoreAtLeastCutoff(c, f) ==
    Ratio(c, f)[1] * CutoffDen >= CutoffNum * Ratio(c, f)[2]

\* C14 (fuzzy threshold): every fuzzy mapping printed by the loop has a
\* similarity score >= 0.6, and a feature is reported as unmatched only when
\* every raw column scores below 0.6; raw column AnomalyScor is renamed to
\* feature AnomalyScore, and with raw column XYZ123 the feature AnomalyScore
\* is not matched and is zero-filled.
C14_FuzzyThreshold ==
    LefLoopEntered =>
       /\ \A i \in 1..Len(log) :
             /\ log[i].ev = "map" => ScoreAtLeastCutoff(log[i].a, log[i].b)
             /\ log[i].ev = "nomatch" =>
                   \A q \in 1..Len(actual_cols) :
                      ~ScoreAtLeastCutoff(actual_cols[q], log[i].a)
       /\ (LefLoopDone /\ pickle.feature_columns = <<nAnomalyScore>>
           /\ Columns(csv) = <<nAnomalyScor>>)
          => /\ rename_map = (nAnomalyScor :> nAnomalyScore)
             /\ missing_features = <<>>
             /\ outcome = "returned" => X = <<[name |-> nAnomalyScore,
                                              vals |-> csv[1].vals]>>
       /\ (LefLoopDone /\ pickle.feature_columns = <<nAnomalyScore>>
           /\ Columns(csv) = <<nXYZ123>>)
          => /\ rename_map = EmptyMap
             /\ missing_features = <<nAnomalyScore>>
             /\ outcome = "returned" =>
                   IsConstColumn(X, nAnomalyScore, Float(0))

\* C14 witness: raw column AnomalyScor was renamed to AnomalyScore and the
\* matrix was returned.
C14_Witness ==
    /\ prog = "lef" /\ pc = "done" /\ outcome = "returned"
    /\ Columns(csv) = <<nAnomalyScor>>
    /\ Columns(X) = <<nAnomalyScore>>
    /\ rename_map = (nAnomalyScor :> nAnomalyScore)

\* the score of raw column c for feature f is below that of raw column d
ScoreBelow(c, d, f) ==
    Ratio(c, f)[1] * Ratio(d, f)[2] < Ratio(d, f)[1] * Ratio(c, f)[2]

\* C15 (fuzzy selection and tie-break): with a well-formed schema the raw
\* column of every fuzzy mapping has the highest score among the raw
\* columns, and every raw column that occurs before it scores strictly
\* lower.
C15_FuzzyTieBreak ==
    (LefLoopEntered /\ WellFormed(pickle)) =>
       \A i \in 1..Len(log) :
          log[i].ev = "map" =>
             \A q \in 1..Len(actual_cols) :
                /\ ~ScoreBelow(log[i].a, actual_cols[q], log[i].b)
                /\ (\A k \in 1..q : actual_cols[k] # log[i].a)
                   => ScoreBelow(actual_cols[q], log[i].a, log[i].b)

\* C12 (ground-truth side channel): when preprocessing has returned the
\* matrix, the ground-truth file has been written if and only if the raw
\* dataset has the column GT_Label.
C12_GroundTruthSideChannel ==
    (pc = "done" /\ outcome = "returned" /\ WellFormed(pickle))
    => (files.ground_truth.state = "written"
        <=> InList(nGT_Label, Columns(csv)))

\* every column of table t has one cell per raw row, and the cell of row i
\* comes from raw row i: a raw cell is the cell of row i of a raw column, a
\* one-hot cell is 1 exactly when the raw Weld value of row i is the weld
\* name of its feature, a filled cell is 0.0
RowAligned(t) ==
    \A c \in 1..Len(t) :
       /\ Len(t[c].vals) = NRows(csv)
       /\ \A i \in 1..Len(t[c].vals) :
             LET cell == t[c].vals[i]
             IN  /\ cell.kind \in {"num", "str"} =>
                       \E k \in 1..Len(csv) : csv[k].vals[i] = cell
                 /\ cell.kind = "int" =>
                       \E k \in 1..Len(csv) :
                          /\ csv[k].name = nWeld
                          /\ (cell.v = 1) <=>
                                (csv[k].vals[i].s
                                    = RemoveAll(t[c].name, nWeld_))
                 /\ cell.kind = "float" => cell = Float(0)

\* C13 (row alignment): the matrix and the written files have one row per
\* raw row, in raw row order, and entry i of the written ground truth is the
\* GT_Label cell of raw row i.
C13_RowAlignment ==
    /\ RowAligned(X)
    /\ files.preprocessed.state = "written"
       => RowAligned(files.preprocessed.table)
    /\ files.ground_truth.state = "written"
       => /\ files.ground_truth.table # <<>>
          /\ RowAligned(files.ground_truth.table)
          /\ \A c \in 1..Len(files.ground_truth.table) :
                \E k \in 1..Len(csv) :
                   /\ Strip(csv[k].name) = nGT_Label
                   /\ files.ground_truth.table[c].vals = csv[k].vals

\* C13 witness: a matrix with a raw column was returned for a dataset of at
\* least two rows and the ground truth was written.
C13_Witness ==
    /\ pc = "done" /\ outcome = "returned"
    /\ files.ground_truth.state = "written"
    /\ NRows(csv) >= 2
    /\ \E c \in 1..Len(X) : X[c].vals[1].kind = "num"

\* the positions of the reconstructed one-hot columns of the matrix
WeldColumns == { c \in 1..Len(X) : StartsWith(X[c].name, nWeld_) }

\* the raw Weld value of row i
WeldValue(i) == ColumnsLabelled(csv, nWeld)[1].vals[i].s

\* C16 (categorical reconstruction): once create_exact_features has
\* reconstructed the Weld_ columns for a well-formed schema, column Weld_<c>
\* is 1 on exactly the rows whose raw Weld value is <c> and 0 on the others,
\* and on every row whose Weld value is named by a schema feature exactly
\* one reconstructed column is 1.
C16_CategoricalReconstruction ==
    (/\ prog = "cef"
     /\ pc \in {"cef_check", "cef_save", "cef_verify", "done"}
     /\ WellFormed(pickle)
     /\ WeldColumns # {})
    => \A i \in 1..NRows(csv) :
          /\ \A c \in WeldColumns :
                /\ X[c].vals[i] \in {IntCell(0), IntCell(1)}
                /\ X[c].vals[i] = IntCell(1)
                   <=> X[c].name = nWeld_ \o WeldValue(i)
          /\ (\E c \in WeldColumns : X[c].name = nWeld_ \o WeldValue(i))
             => Cardinality({ c \in WeldColumns : X[c].vals[i] = IntCell(1) })
                   = 1

\* the verification of create_exact_preprocessing.py has run its loop
Verified == prog = "cef" /\ pc = "done" /\ training_sample.has
                         /\ files.preprocessed.state = "written"

C19_VerificationNeverBlocks ==
    (/\ prog = "cef" /\ pc = "done"
     /\ files.preprocessed.state = "written"
     /\ X # <<>>)
    => outcome = "returned"

C21_RawNeverMutated ==
    (/\ prog \in {"lef", "cef"} /\ pc = "done" /\ outcome = "returned"
     /\ WellFormed(pickle) /\ X # <<>>)
    => df = (IF prog = "lef" THEN StripColumns(csv) ELSE csv)

\* the schema has been loaded by the script that runs
SchemaLoaded ==
    \/ /\ prog = "lef"
       /\ pc \in {"lef_read", "lef_match", "lef_extract", "done"}
       /\ ~LefLoadRaises(pickle)
    \/ prog = "cef" /\ pc # "cef_load"
    \/ prog = "rfp" /\ feature_mapping # NoMapping

\* C22 (schema immutability): once loaded, feature_mapping has the
\* feature_columns (names and order) and the feature_count of the schema
\* artifact, in every later state of every reconciler, in the first and in
\* the second call, also when GT_Label was dropped from the working list.
C22_SchemaImmutable ==
    SchemaLoaded =>
       /\ feature_mapping.feature_columns = pickle.feature_columns
       /\ feature_mapping.feature_count = pickle.feature_count
       /\ feature_mapping = pickle

\* C22 witness: the second call has returned for a schema that lists
\* GT_Label, which the working list does not hold.
C22_Witness ==
    /\ prog = "lef" /\ run = 2 /\ pc = "done" /\ outcome = "returned"
    /\ InList(nGT_Label, feature_mapping.feature_columns)
    /\ ~InList(nGT_Label, feature_columns)
    /\ X # <<>>

\* the raw columns whose trimmed name is f
TrimsTo(f) == {c \in 1..Len(csv) : Strip(csv[c].name) = f}

\* every feature of the schema is, after trimming, the name of exactly one
\* raw column, and the raw column " A " is the one of feature A
TrimmedHeaderFitsSchema ==
    /\ WellFormed(pickle)
    /\ InList(nA, pickle.feature_columns)
    /\ InList(nA_sp, Columns(csv))
    /\ \A i \in 1..Len(pickle.feature_columns) :
          Cardinality(TrimsTo(pickle.feature_columns[i])) = 1

\* preprocess_for_inference of load_exact_features.py or of the pipeline
\* has ended
ReconcilerEnded ==
    \/ prog = "lef" /\ pc = "done"
    \/ prog = "rfp" /\ feature_mapping # NoMapping /\ prep_result # "none"

\* C23 (name normalisation): when the raw columns, once trimmed, are the
\* features of the schema, a reconciler that has ended has returned a
\* matrix whose column A holds the values of the raw column " A ", with no
\* rename recorded for " A " and no zero-fill of A.
C23_NameNormalisation ==
    (ReconcilerEnded /\ TrimmedHeaderFitsSchema) =>
       /\ outcome = "returned"
       /\ nA_sp \notin DOMAIN rename_map
       /\ ~InList(nA, missing_features)
       /\ \E c \in 1..Len(X), r \in TrimsTo(nA) :
             X[c].name = nA /\ X[c].vals = csv[r].vals

\* convert_pickle_to_json has written the JSON file
Converted == prog = "rfp" /\ files.json.state = "written"

\* the JSON file holds the artifact's feature list and count, its
\* sample_features exactly when the artifact has them, and a value for
\* every step and every sample feature of the artifact
SameShape ==
    /\ files.json.mapping.feature_columns = pickle.feature_columns
    /\ files.json.mapping.feature_count = pickle.feature_count
    /\ files.json.sample.has = training_sample.has
    /\ training_sample.has =>
          DOMAIN files.json.sample.vals = DOMAIN training_sample.vals
    /\ DOMAIN files.json.steps.vals = DOMAIN preprocessing_steps.vals

\* the scalar is no 64-bit integer beyond 2^53
WithinDoubleRange(value) ==
    value.type = "numpy.int64" => (~value.n.big \/ value.n.off = 0)

CountWarned == \E i \in 1..Len(log) : log[i].ev = "warn_count"

\* C25 (label in schema): when the schema lists GT_Label and
\* preprocess_for_inference of load_exact_features.py returns, the working
\* list is the schema's list without GT_Label, the expected count is still
\* the schema's feature_count, and the count warning was printed exactly
\* when the matrix has another number of columns than feature_count, which
\* is always so when no two raw columns carry one name.
C25_LabelInSchemaWarning ==
    (/\ prog = "lef" /\ pc = "done" /\ outcome = "returned"
     /\ InList(nGT_Label, pickle.feature_columns))
    => /\ feature_columns = ListRemove(pickle.feature_columns, nGT_Label)
       /\ ~InList(nGT_Label, Columns(X))
       /\ expected_count = pickle.feature_count
       /\ feature_mapping.feature_count = pickle.feature_count
       /\ CountWarned <=> (Len(X) # pickle.feature_count)
       /\ (WellFormed(pickle) /\ Len(X) = Len(feature_columns)) => CountWarned

\* C25 witness: a matrix was returned for a well-formed schema that lists
\* GT_Label next to another feature, and the warning was printed.
C25_Witness ==
    /\ prog = "lef" /\ pc = "done" /\ outcome = "returned"
    /\ WellFormed(pickle)
    /\ InList(nGT_Label, pickle.feature_columns)
    /\ X # <<>>
    /\ Len(X) = pickle.feature_count - 1
    /\ CountWarned

\* the stages of main in their order, preprocessing being the first when
\* run_before_inference is set
StageOrder(cfg) ==
    (IF cfg.run_before_inference THEN <<"preprocessing">> ELSE <<>>)
    \o <<"appsettings", "build", "run", "confusion">>

\* s is the beginning of t
IsPrefix(s, t) == Len(s) <= Len(t) /\ s = SubSeq(t, 1, Len(s))

\* C26 (pipeline stage ordering): the stages main has started are a
\* beginning of preprocessing (if run_before_inference), appsettings,
\* build, run, confusion; after a failed preprocessing no later stage was
\* started; main ends with 0 only after the predictor was run, with 1 when
\* it ends before the predictor was run, and with 0 whenever the confusion
\* matrix was started (schemas of at least one feature).
C26_StageOrdering ==
    (prog = "rfp" /\ WellFormed(pickle) /\ pickle.feature_columns # <<>>) =>
       /\ IsPrefix(stages, StageOrder(config))
       /\ prep_result = "False" =>
             (~InList("appsettings", stages) /\ pc = "done" /\ exit_code = 1)
       /\ exit_code = 0 => InList("run", stages)
       /\ (pc = "done" /\ ~InList("run", stages)) => exit_code = 1
       /\ (pc = "done" /\ InList("confusion", stages)) => exit_code = 0

\* the line is a marker once trimmed
IsStartMarker(l) == Strip(l) = PREDICTIONS_START
IsEndMarker(l) == Strip(l) = PREDICTIONS_END

\* line i of ls lies after a PREDICTIONS_START marker with no
\* PREDICTIONS_END marker in between
InWindow(ls, i) ==
    \E j \in 1..(i - 1) :
       /\ IsStartMarker(ls[j])
       /\ \A k \in (j + 1)..(i - 1) : ~IsEndMarker(ls[k])

\* line i of ls is to be captured
ShouldCapture(ls, i) ==
    /\ InWindow(ls, i)
    /\ StartsWith(Strip(ls[i]), <<RowOpen>>)
    /\ JsonLoads(Strip(ls[i])).ok

\* the parsed lines among the first n that are to be captured, in their
\* order of appearance
RECURSIVE ExpectedCaptures(_, _)
ExpectedCaptures(ls, n) ==
    IF n = 0 THEN <<>>
    ELSE IF ShouldCapture(ls, n)
         THEN Append(ExpectedCaptures(ls, n - 1), JsonLoads(Strip(ls[n])))
         ELSE ExpectedCaptures(ls, n - 1)

\* C27 (prediction scraping): at every point of the loop the predictions
\* appended so far are the parsed lines, in their order of appearance, that
\* lie after a PREDICTIONS_START with no PREDICTIONS_END in between, start
\* (trimmed) with {"row": and parse as JSON; capturing is on exactly inside
\* such a window; no marker line and no line outside a window is among
\* them; the function returns without error whatever the lines.
C27_PredictionScraping ==
    prog = "parse" =>
       /\ captured = ExpectedCaptures(lines, line_no - 1)
       /\ capturing = InWindow(lines, line_no)
       /\ Len(captured) =
             Cardinality({i \in 1..(line_no - 1) :
                            /\ ~IsStartMarker(lines[i])
                            /\ ~IsEndMarker(lines[i])
                            /\ ShouldCapture(lines, i)})
       /\ \A i \in 1..Len(captured) : captured[i].key = RowOpen
       /\ outcome \in {"running", "returned"}
       /\ pc = "done" => (outcome = "returned" /\ line_no = Len(lines) + 1)

\* C27 witness: the function has returned one prediction for an output
\* with a prediction before the window, a cut-off prediction inside it and
\* a prediction inside it.
C27_Witness ==
    /\ prog = "parse" /\ pc = "done"
    /\ Len(lines) = 4
    /\ JsonLoads(Strip(lines[1])).ok /\ JsonLoads(Strip(lines[1])).key = RowOpen
    /\ IsStartMarker(lines[2])
    /\ StartsWith(lines[3], <<RowOpen>>) /\ ~JsonLoads(lines[3]).ok
    /\ ShouldCapture(lines, 4)
    /\ Len(captured) = 1

\* run_preprocessing returned True at once: nothing was read or written
Skipped ==
    /\ prog = "rfp"
    /\ prep_result = "True"
    /\ feature_mapping = NoMapping

\* this run has written to the file
WrittenNow(f) == f.state \in {"written", "partial"}

\* C28 (skip-if-exists): run_preprocessing returns True at once, with the
\* pickle unread and no file written, exactly when skip_if_exists is set
\* and the preprocessed CSV and the feature JSON both exist; it goes on to
\* the conversion only when that is not so and the pickle exists, and
\* fails before it only when that is not so and the pickle is missing;
\* the matrix is written only after the JSON; and in a run that follows
\* a failed preprocessing and finds no preprocessed CSV, preprocessing is
\* not skipped.
C28_SkipIfExists ==
    prog = "rfp" =>
       /\ Skipped =>
             /\ SkipPreprocessing(config, files)
             /\ \A k \in DOMAIN files : ~WrittenNow(files[k])
             /\ X = <<>>
       /\ pc = "rfp_convert" =>
             (~SkipPreprocessing(config, files) /\ config.pickle_exists)
       /\ (pc = "done" /\ prep_result = "False" /\ outcome = "running") =>
             /\ ~SkipPreprocessing(config, files)
             /\ ~config.pickle_exists
             /\ \A k \in DOMAIN files : ~WrittenNow(files[k])
       /\ WrittenNow(files.preprocessed) => files.json.state = "written"
       /\ (run = 2 /\ InList("preprocessing", stages) /\ pc # "rfp_prep"
           /\ ~Exists(files.preprocessed))
             => ~Skipped

\* C28 witness: in the run after a failure inside the preprocessor, with
\* skip_if_exists set, the JSON of the first run exists, the preprocessed
\* CSV does not, and preprocessing is not skipped: the conversion is next.
C28_Witness ==
    /\ prog = "rfp" /\ run = 2 /\ pc = "rfp_convert"
    /\ config.skip_if_exists
    /\ files.json.state = "old"
    /\ files.json.mapping = JsonMapping(pickle)
    /\ ~Exists(files.preprocessed)

=============================================================================
